---- MODULE Spec2Model ----
(***************************************************************************)
(* A model of bin/TrackHubGenerator.py: discovery of track files, identity *)
(* extraction from file names, sample-sheet loading, metadata merge,       *)
(* parameter projection and hub assembly.                                  *)
(*                                                                         *)
(* A Python str is a sequence of one-character strings, so that split,     *)
(* splitext, basename and strip are computed, not assumed.  Dictionary     *)
(* keys that the program writes as literals (column names, parameter      *)
(* names) are TLA+ strings.  Python's None is the value None below.        *)
(***************************************************************************)
EXTENDS Integers, Sequences, FiniteSets, TLC

VARIABLES
    pc,               \* position of the running operation
    args,             \* the inputs of the operation (command line, file system)
    sample_metadata,  \* Dict[str, SampleMetadata] built by parse_sample_sheet
    rows_read,        \* rows of the sheet consumed by parse_sample_sheet's loop
    track_files,      \* the TrackFile objects, in creation order
    merged,           \* the TrackFile objects apply_sample_metadata has visited so far
    groupings,        \* the dictionaries returned by the grouping calls made so far
    hub,              \* the trackhub structure being assembled and the output written
    error,            \* the exception that ended the run, or NoError
    warnings          \* the warnings and errors logged so far

vars ==
    <<pc, args, sample_metadata, rows_read, track_files, merged, groupings, hub, error, warnings>>

----------------------------------------------------------------------------
(* Bounds of the model.                                                    *)

MaxNameLen == 4
MaxRows == 2
MaxFiles == 3
MaxPatterns == 3

----------------------------------------------------------------------------
(* Strings.                                                                *)

None == <<"<None>">>

Chars == {"a", "b", "_", "."}

RECURSIVE StringsUpTo(_)
StringsUpTo(n) ==
    IF n = 0 THEN {<<>>}
    ELSE LET shorter == StringsUpTo(n - 1)
         IN  shorter \cup {Append(s, c) : s \in {t \in shorter : Len(t) = n - 1}, c \in Chars}

\* glob.glob returns the paths of files: the names are not empty
FileNames == StringsUpTo(MaxNameLen) \ {<<>>}

ExampleName ==
    <<"S","a","m","p","l","e","A","_","m","a","c","s","2","p","e","a","k","s",
      ".","n","a","r","r","o","w","P","e","a","k",".","b","b">>

Str_SampleA == <<"S","a","m","p","l","e","A">>
Str_macs2peaks == <<"m","a","c","s","2","p","e","a","k","s">>
Str_default == <<"d","e","f","a","u","l","t">>
Str_bigwig == <<"b","i","g","w","i","g">>
Str_bigbed == <<"b","i","g","b","e","d">>
Str_bigWig == <<"b","i","g","W","i","g">>
Str_bigBed == <<"b","i","g","B","e","d">>
Str_1 == <<"1">>
Str_2 == <<"2">>
Str_on == <<"o","n">>
Str_off == <<"o","f","f">>
Str_full == <<"f","u","l","l">>
Str_pack == <<"p","a","c","k">>
Str_dense == <<"d","e","n","s","e">>
Str_0_0_100 == <<"0",",","0",",","1","0","0">>
Str_0_100_0 == <<"0",",","1","0","0",",","0">>
Str_255_0_0 == <<"2","5","5",",","0",",","0">>

\* s[i..] and s[..i] of Python, with 1-based TLA+ positions
Prefix(s, n) == SubSeq(s, 1, n)
Suffix(s, n) == SubSeq(s, n, Len(s))

\* str.find(c) + 1: the first position of character c in s, 0 when absent
IndexOf(s, c) ==
    IF \E i \in 1..Len(s) : s[i] = c
    THEN CHOOSE i \in 1..Len(s) : s[i] = c /\ \A j \in 1..(i - 1) : s[j] # c
    ELSE 0

\* str.rfind(c) + 1: the last position of character c in s, 0 when absent
LastIndexOf(s, c) ==
    IF \E i \in 1..Len(s) : s[i] = c
    THEN CHOOSE i \in 1..Len(s) : s[i] = c /\ \A j \in (i + 1)..Len(s) : s[j] # c
    ELSE 0

\* str.split(sep) for a one-character separator: the list of tokens
RECURSIVE Split(_, _)
Split(s, sep) ==
    LET i == IndexOf(s, sep)
    IN  IF i = 0 THEN <<s>>
        ELSE <<Prefix(s, i - 1)>> \o Split(Suffix(s, i + 1), sep)

\* os.path.basename: what follows the last "/"
Basename(path) == Suffix(path, LastIndexOf(path, "/") + 1)

\* os.path.splitext(p)[0]: p cut at its last dot, unless only dots precede
\* that dot in the last path component
SplitExtRoot(p) ==
    LET sepIndex == LastIndexOf(p, "/")
        dotIndex == LastIndexOf(p, ".")
    IN  IF dotIndex > sepIndex
           /\ \E k \in (sepIndex + 1)..(dotIndex - 1) : p[k] # "."
        THEN Prefix(p, dotIndex - 1)
        ELSE p

----------------------------------------------------------------------------
\* Identity rules: compiled regular expressions (re.Pattern objects).
\* A rule of the model is None or one of the patterns
\*     ^(?P<group>[^D]*)D        group always takes part, possibly empty
\*     ^(?P<group>[^D]+)?D       optional group
\*     ^([^D]*)D                 no named group (group = "")
\* for a delimiter character D.

NoPattern == [compiled |-> FALSE, delim |-> "", group |-> "", optional |-> FALSE]

Patterns ==
    {NoPattern} \cup
    {[compiled |-> TRUE, delim |-> "_", group |-> g, optional |-> o] :
        g \in {"sample_id", "annotation_type"}, o \in BOOLEAN} \cup
    {[compiled |-> TRUE, delim |-> "_", group |-> "", optional |-> FALSE]}

NoMatch == [matched |-> FALSE, groupdict |-> [g \in {} |-> <<>>]]

\* pattern.search(filename): the match object, with match.groupdict()
Search(pattern, filename) ==
    LET i == IndexOf(filename, pattern.delim)
        captured == Prefix(filename, i - 1)
        value == IF pattern.optional /\ captured = <<>> THEN None ELSE captured
    IN  IF i = 0 THEN NoMatch
        ELSE [matched |-> TRUE,
              groupdict |-> [g \in {pattern.group} \ {""} |-> value]]

----------------------------------------------------------------------------
(* class TrackFile: construction and identity extraction.                  *)

EmptyParams == [k \in {} |-> <<>>]

\* The default rule of _extract_sample_id: basename.split('.')[0].split('_')[0]
DefaultSampleId(basename) == Split(Split(basename, ".")[1], "_")[1]

\* The default rule of _extract_annotation_type
DefaultAnnotationType(basename) ==
    LET parts == Split(basename, "_")
    IN  IF Len(parts) > 1 THEN parts[2] ELSE Str_default

\* A slip: the cut at the first dot is left out
ExtractSampleId_NoDotCut(filename, basename, pattern) ==
    LET match == Search(pattern, filename)
    IN  IF pattern.compiled /\ match.matched /\ "sample_id" \in DOMAIN match.groupdict
        THEN match.groupdict["sample_id"]
        ELSE Split(basename, "_")[1]

\* TrackFile._extract_sample_id
ExtractSampleId(filename, basename, pattern) ==
    LET match == Search(pattern, filename)
    IN  IF pattern.compiled /\ match.matched /\ "sample_id" \in DOMAIN match.groupdict
        THEN match.groupdict["sample_id"]
        ELSE DefaultSampleId(basename)

\* TrackFile._extract_annotation_type
ExtractAnnotationType(filename, basename, pattern) ==
    LET match == Search(pattern, filename)
    IN  IF pattern.compiled /\ match.matched /\ "annotation_type" \in DOMAIN match.groupdict
        THEN match.groupdict["annotation_type"]
        ELSE DefaultAnnotationType(basename)

\* A slip: a TrackFile starts without a priority
NewTrackFile_NoPriority(file_path, track_type, sample_pattern, annotation_pattern) ==
    LET filename == Basename(file_path)
        basename == SplitExtRoot(filename)
    IN  [file_path |-> file_path,
         track_type |-> track_type,
         filename |-> filename,
         basename |-> basename,
         sample_id |-> ExtractSampleId(filename, basename, sample_pattern),
         annotation_type |->
             IF track_type = Str_bigbed
             THEN ExtractAnnotationType(filename, basename, annotation_pattern)
             ELSE <<>>,
         short_label |-> basename,
         long_label |-> basename,
         color |-> <<>>,
         visibility |-> <<>>,
         priority |-> <<>>,
         additional_params |-> EmptyParams]

\* TrackFile.__init__
NewTrackFile(file_path, track_type, sample_pattern, annotation_pattern) ==
    LET filename == Basename(file_path)
        basename == SplitExtRoot(filename)
    IN  [file_path |-> file_path,
         track_type |-> track_type,
         filename |-> filename,
         basename |-> basename,
         sample_id |-> ExtractSampleId(filename, basename, sample_pattern),
         annotation_type |->
             IF track_type = Str_bigbed
             THEN ExtractAnnotationType(filename, basename, annotation_pattern)
             ELSE <<>>,
         short_label |-> basename,
         long_label |-> basename,
         color |-> <<>>,
         visibility |-> <<>>,
         priority |-> Str_1,
         additional_params |-> EmptyParams]

----------------------------------------------------------------------------
(* class SampleMetadata and parse_sample_sheet.                            *)
(*                                                                         *)
(* A sheet is what csv.DictReader makes of the file: fieldnames (None for  *)
(* an empty file) and rows, each a dictionary column -> cell.  The         *)
(* additional_params cell is JSON text; json.loads is given by its results *)
(* on the texts of the model.                                              *)

Str_a == <<"a">>
Str_x == <<"x">>
Str_v == <<"v">>
Str_L1 == <<"L", "1">>
Str_L2 == <<"L", "2">>

Whitespace == {" ", "\t"}

\* str.strip()
RECURSIVE Strip(_)
Strip(s) ==
    IF s = <<>> THEN s
    ELSE IF s[1] \in Whitespace THEN Strip(Tail(s))
    ELSE IF s[Len(s)] \in Whitespace THEN Strip(Prefix(s, Len(s) - 1))
    ELSE s

\* The values json.loads can return: a dict (string keys), a list, or a scalar.
\* A list element is described by what dict.update needs of it: whether it is a
\* sequence of length 2, and then its two members.
JsonDict(d) == [type |-> "dict", dict |-> d, list |-> <<>>]
JsonList(l) == [type |-> "list", dict |-> EmptyParams, list |-> l]
JsonScalar(t) == [type |-> t, dict |-> EmptyParams, list |-> <<>>]
Element(pair, k, v) == [pair |-> pair, key |-> k, value |-> v]

EveryParamKey ==
    {"autoScale", "alwaysZero", "color", "visibility", "priority", "name", "source",
     "tracktype", "short_label", "long_label", "type", "format"}

Text_AutoScaleOff == "{\"autoScale\": \"off\"}"
Text_EveryKey ==
    "{\"autoScale\": \"x\", \"alwaysZero\": \"x\", \"color\": \"x\", \"visibility\": \"x\", \"priority\": \"x\", \"name\": \"x\", \"source\": \"x\", \"tracktype\": \"x\", \"short_label\": \"x\", \"long_label\": \"x\", \"type\": \"x\", \"format\": \"x\"}"
Text_EmptyObject == "{}"
Text_SingleQuoted == "{'autoScale': 'off'}"
Text_Truncated == "{\"autoScale\": "
Text_ListOfNumber == "[1]"
Text_ListOfPair == "[[\"k\", \"v\"]]"
Text_Number == "5"
Text_Null == "null"

ObjectTexts == {Text_AutoScaleOff, Text_EveryKey, Text_EmptyObject}
MalformedTexts == {Text_SingleQuoted, Text_Truncated}
OtherJsonTexts == {Text_ListOfNumber, Text_ListOfPair, Text_Number, Text_Null}
ParamTexts == {""} \cup ObjectTexts \cup MalformedTexts \cup OtherJsonTexts

\* json.loads(text): decoded is FALSE when it raises json.JSONDecodeError
JsonLoads(text) ==
    CASE text = Text_AutoScaleOff -> [decoded |-> TRUE, value |-> JsonDict([autoScale |-> Str_off])]
      [] text = Text_EveryKey -> [decoded |-> TRUE, value |-> JsonDict([k \in EveryParamKey |-> Str_x])]
      [] text = Text_EmptyObject -> [decoded |-> TRUE, value |-> JsonDict(EmptyParams)]
      [] text = Text_ListOfNumber ->
             [decoded |-> TRUE, value |-> JsonList(<<Element(FALSE, "", <<>>)>>)]
      [] text = Text_ListOfPair ->
             [decoded |-> TRUE, value |-> JsonList(<<Element(TRUE, "k", Str_v)>>)]
      [] text = Text_Number -> [decoded |-> TRUE, value |-> JsonScalar("int")]
      [] text = Text_Null -> [decoded |-> TRUE, value |-> JsonScalar("NoneType")]
      [] OTHER -> [decoded |-> FALSE, value |-> JsonScalar("NoneType")]

\* row.get(column, default)
Get(row, column, default) == IF column \in DOMAIN row THEN row[column] ELSE default

\* A slip: the except branch leaves additional_params unset
NewSampleMetadata_Unset(row) ==
    LET text == Get(row, "additional_params", "")
        parsed == JsonLoads(text)
    IN  [md |-> [sample_id |-> row["sample_id"],
                 short_label |-> Get(row, "short_label", row["sample_id"]),
                 long_label |-> Get(row, "long_label", row["sample_id"]),
                 color |-> Get(row, "color", <<>>),
                 visibility |-> Get(row, "visibility", <<>>),
                 priority |-> Get(row, "priority", Str_1),
                 additional_params |->
                     IF text # "" /\ parsed.decoded THEN parsed.value
                     ELSE IF text # "" THEN JsonScalar("NoneType")
                     ELSE JsonDict(EmptyParams)],
         warned |-> text # "" /\ ~parsed.decoded]

\* SampleMetadata.__init__: the object, and whether the warning was logged
NewSampleMetadata(row) ==
    LET text == Get(row, "additional_params", "")
        parsed == JsonLoads(text)
    IN  [md |-> [sample_id |-> row["sample_id"],
                 short_label |-> Get(row, "short_label", row["sample_id"]),
                 long_label |-> Get(row, "long_label", row["sample_id"]),
                 color |-> Get(row, "color", <<>>),
                 visibility |-> Get(row, "visibility", <<>>),
                 priority |-> Get(row, "priority", Str_1),
                 additional_params |->
                     IF text # "" /\ parsed.decoded THEN parsed.value
                     ELSE JsonDict(EmptyParams)],
         warned |-> text # "" /\ ~parsed.decoded]

\* dict[key] = value
Store(dict, key, value) ==
    [k \in DOMAIN dict \cup {key} |-> IF k = key THEN value ELSE dict[k]]

\* A slip: an entry already present is kept (setdefault)
StoreRow_FirstWins(samples, row) ==
    IF Strip(row["sample_id"]) = <<>> THEN samples
    ELSE IF row["sample_id"] \in DOMAIN samples THEN samples
    ELSE Store(samples, row["sample_id"], NewSampleMetadata(row).md)

\* The body of parse_sample_sheet's loop for one row
StoreRow(samples, row) ==
    IF Strip(row["sample_id"]) = <<>> THEN samples
    ELSE Store(samples, row["sample_id"], NewSampleMetadata(row).md)

RequiredColumns == {"sample_id"}

\* required_columns - set(reader.fieldnames)
MissingColumns(fieldnames) == RequiredColumns \ fieldnames

NoFieldnames == {"<None>"}

\* args.sample_sheet: the path given (none for NoSheet) and what the file holds
Sheet(readable, fieldnames, rows) ==
    [path |-> "samples.csv", readable |-> readable, fieldnames |-> fieldnames, rows |-> rows]
NoSheet == [path |-> "", readable |-> FALSE, fieldnames |-> NoFieldnames, rows |-> <<>>]

Fail(type, columns) == [type |-> type, columns |-> columns]

\* parse_sample_sheet up to its loop: open the file, read the header, validate
OpenSheet ==
    /\ pc = "parse_sample_sheet"
    /\ LET sheet == args.sample_sheet
       IN  IF ~sheet.readable
           THEN error' = Fail("OSError", {}) /\ pc' = "fatal"
           ELSE IF sheet.fieldnames = NoFieldnames
           THEN error' = Fail("TypeError", {}) /\ pc' = "fatal"
           ELSE IF MissingColumns(sheet.fieldnames) # {}
           THEN error' = Fail("ValueError", MissingColumns(sheet.fieldnames)) /\ pc' = "fatal"
           ELSE error' = error /\ pc' = "read_rows"
    /\ UNCHANGED <<args, sample_metadata, rows_read, track_files, hub, warnings, groupings, merged>>

\* One iteration of "for row in reader"
ReadRow ==
    /\ pc = "read_rows"
    /\ rows_read < Len(args.sample_sheet.rows)
    /\ LET row == args.sample_sheet.rows[rows_read + 1]
       IN  /\ sample_metadata' = StoreRow(sample_metadata, row)
           /\ warnings' =
                  IF Strip(row["sample_id"]) # <<>> /\ NewSampleMetadata(row).warned
                  THEN Append(warnings, "additional_params")
                  ELSE warnings
    /\ rows_read' = rows_read + 1
    /\ UNCHANGED <<pc, args, track_files, hub, error, groupings, merged>>

\* The loop ends and parse_sample_sheet returns samples
EndSheet ==
    /\ pc = "read_rows"
    /\ rows_read = Len(args.sample_sheet.rows)
    /\ pc' = "metadata_ready"
    /\ UNCHANGED <<args, sample_metadata, rows_read, track_files, hub, error, warnings, groupings, merged>>

----------------------------------------------------------------------------
(* Metadata merge: TrackFile.apply_metadata and apply_sample_metadata.     *)

\* dict.update(other) on a dict of string keys: the dict afterwards and the
\* exception raised ("" for none).  A list is consumed element by element.
RECURSIVE UpdateFromList(_, _)
UpdateFromList(params, list) ==
    IF list = <<>> THEN [params |-> params, raised |-> ""]
    ELSE IF ~Head(list).pair THEN [params |-> params, raised |-> "TypeError"]
    ELSE UpdateFromList(Store(params, Head(list).key, Head(list).value), Tail(list))

Update(params, other) ==
    CASE other.type = "dict" -> [params |-> other.dict @@ params, raised |-> ""]
      [] other.type = "list" -> UpdateFromList(params, other.list)
      [] OTHER -> [params |-> params, raised |-> "TypeError"]

\* A slip: the sheet's color and visibility replace the object's own
ApplyMetadata_SheetWins(tf, metadata) ==
    LET updated == Update(tf.additional_params, metadata.additional_params)
    IN  [tf |-> [tf EXCEPT
                   !.short_label = metadata.short_label,
                   !.long_label = metadata.long_label,
                   !.color = IF metadata.color # <<>> THEN metadata.color ELSE @,
                   !.visibility = IF metadata.visibility # <<>>
                                  THEN metadata.visibility ELSE @,
                   !.priority = IF tf.priority = <<>> /\ metadata.priority # <<>>
                                THEN metadata.priority ELSE @,
                   !.additional_params = updated.params],
         raised |-> updated.raised]

\* TrackFile.apply_metadata: the object afterwards and the exception raised
ApplyMetadata(tf, metadata) ==
    LET updated == Update(tf.additional_params, metadata.additional_params)
    IN  [tf |-> [tf EXCEPT
                   !.short_label = metadata.short_label,
                   !.long_label = metadata.long_label,
                   !.color = IF tf.color = <<>> /\ metadata.color # <<>>
                             THEN metadata.color ELSE @,
                   !.visibility = IF tf.visibility = <<>> /\ metadata.visibility # <<>>
                                  THEN metadata.visibility ELSE @,
                   !.priority = IF tf.priority = <<>> /\ metadata.priority # <<>>
                                THEN metadata.priority ELSE @,
                   !.additional_params = updated.params],
         raised |-> updated.raised]

\* apply_sample_metadata over the objects files[from..]: the list afterwards,
\* the warnings logged, the exception that ended the loop and the objects the
\* loop has visited
RECURSIVE ApplySampleMetadata(_, _, _)
ApplySampleMetadata(files, from, metadata) ==
    IF from > Len(files)
    THEN [files |-> files, warned |-> <<>>, raised |-> "", visited |-> <<>>]
    ELSE IF files[from].sample_id \notin DOMAIN metadata
    THEN LET rest == ApplySampleMetadata(files, from + 1, metadata)
         IN  [rest EXCEPT !.warned = <<"no metadata">> \o @, !.visited = <<from>> \o @]
    ELSE LET applied == ApplyMetadata(files[from], metadata[files[from].sample_id])
             after == [files EXCEPT ![from] = applied.tf]
         IN  IF applied.raised # ""
             THEN [files |-> after, warned |-> <<>>, raised |-> applied.raised,
                   visited |-> <<from>>]
             ELSE LET rest == ApplySampleMetadata(after, from + 1, metadata)
                  IN  [rest EXCEPT !.visited = <<from>> \o @]

----------------------------------------------------------------------------
(* Discovery: find_track_files.  A glob pattern is given by what glob.glob *)
(* returns for it: a list of paths.                                        *)

RECURSIVE FindTrackFiles(_, _, _, _)

\* A slip: the loop ends at the first pattern without files
FindTrackFiles_StopAtEmpty(file_patterns, track_type, sample_pattern, annotation_pattern) ==
    IF file_patterns = <<>> THEN [files |-> <<>>, warned |-> <<>>]
    ELSE LET files == Head(file_patterns)
             rest == FindTrackFiles(Tail(file_patterns), track_type,
                                    sample_pattern, annotation_pattern)
         IN  IF files = <<>>
             THEN [files |-> <<>>, warned |-> <<"no files">>]
             ELSE [rest EXCEPT !.files =
                      [i \in 1..Len(files) |->
                          NewTrackFile(files[i], track_type, sample_pattern, annotation_pattern)]
                      \o @]

FindTrackFiles(file_patterns, track_type, sample_pattern, annotation_pattern) ==
    IF file_patterns = <<>> THEN [files |-> <<>>, warned |-> <<>>]
    ELSE LET files == Head(file_patterns)
             rest == FindTrackFiles(Tail(file_patterns), track_type,
                                    sample_pattern, annotation_pattern)
         IN  IF files = <<>>
             THEN [rest EXCEPT !.warned = <<"no files">> \o @]
             ELSE [rest EXCEPT !.files =
                      [i \in 1..Len(files) |->
                          NewTrackFile(files[i], track_type, sample_pattern, annotation_pattern)]
                      \o @]

----------------------------------------------------------------------------
(* Projection: TrackFile.get_track_params.                                 *)

\* A slip: the computed parameters are written over additional_params
GetTrackParams_DefaultsLast(tf, ensembl_compatible) ==
    LET bigwig == tf.track_type = Str_bigwig
        color == IF tf.color = <<>> THEN (IF bigwig THEN Str_0_0_100 ELSE Str_0_100_0)
                 ELSE tf.color
        visibility == IF tf.visibility = <<>> THEN (IF bigwig THEN Str_full ELSE Str_pack)
                      ELSE tf.visibility
        base == [name |-> tf.track_type \o <<"_">> \o tf.basename,
                 source |-> tf.file_path,
                 visibility |-> visibility,
                 tracktype |-> IF bigwig THEN Str_bigWig ELSE Str_bigBed,
                 short_label |-> tf.short_label,
                 long_label |-> tf.long_label,
                 color |-> color,
                 priority |-> tf.priority]
        defaults == IF bigwig THEN [k \in {"autoScale", "alwaysZero"} |-> Str_on]
                    ELSE EmptyParams
        ensembl == IF ensembl_compatible
                   THEN [k \in {"type", "format"} |-> IF bigwig THEN Str_bigWig ELSE Str_bigBed]
                   ELSE EmptyParams
    IN  [params |-> ensembl @@ defaults @@ base @@ tf.additional_params,
         tf |-> [tf EXCEPT !.color = color, !.visibility = visibility]]

\* A slip: the defaults of the two track kinds are exchanged
GetTrackParams_SwappedDefaults(tf, ensembl_compatible) ==
    LET bigwig == tf.track_type = Str_bigwig
        color == IF tf.color = <<>> THEN (IF bigwig THEN Str_0_100_0 ELSE Str_0_0_100)
                 ELSE tf.color
        visibility == IF tf.visibility = <<>> THEN (IF bigwig THEN Str_pack ELSE Str_full)
                      ELSE tf.visibility
        base == [name |-> tf.track_type \o <<"_">> \o tf.basename,
                 source |-> tf.file_path,
                 visibility |-> visibility,
                 tracktype |-> IF bigwig THEN Str_bigWig ELSE Str_bigBed,
                 short_label |-> tf.short_label,
                 long_label |-> tf.long_label,
                 color |-> color,
                 priority |-> tf.priority]
        defaults == IF bigwig
                    THEN [k \in {"autoScale", "alwaysZero"} \ DOMAIN tf.additional_params |-> Str_on]
                    ELSE EmptyParams
        ensembl == IF ensembl_compatible
                   THEN [k \in {"type", "format"} |-> IF bigwig THEN Str_bigWig ELSE Str_bigBed]
                   ELSE EmptyParams
    IN  [params |-> tf.additional_params @@ ensembl @@ defaults @@ base,
         tf |-> [tf EXCEPT !.color = color, !.visibility = visibility]]

\* TrackFile.get_track_params (no parent is ever passed): the parameter map
\* returned, and the object afterwards (color and visibility are assigned)
GetTrackParams(tf, ensembl_compatible) ==
    LET bigwig == tf.track_type = Str_bigwig
        color == IF tf.color = <<>> THEN (IF bigwig THEN Str_0_0_100 ELSE Str_0_100_0)
                 ELSE tf.color
        visibility == IF tf.visibility = <<>> THEN (IF bigwig THEN Str_full ELSE Str_pack)
                      ELSE tf.visibility
        base == [name |-> tf.track_type \o <<"_">> \o tf.basename,
                 source |-> tf.file_path,
                 visibility |-> visibility,
                 tracktype |-> IF bigwig THEN Str_bigWig ELSE Str_bigBed,
                 short_label |-> tf.short_label,
                 long_label |-> tf.long_label,
                 color |-> color,
                 priority |-> tf.priority]
        defaults == IF bigwig
                    THEN [k \in {"autoScale", "alwaysZero"} \ DOMAIN tf.additional_params |-> Str_on]
                    ELSE EmptyParams
        ensembl == IF ensembl_compatible
                   THEN [k \in {"type", "format"} |-> IF bigwig THEN Str_bigWig ELSE Str_bigBed]
                   ELSE EmptyParams
    IN  [params |-> tf.additional_params @@ ensembl @@ defaults @@ base,
         tf |-> [tf EXCEPT !.color = color, !.visibility = visibility]]

----------------------------------------------------------------------------
(* The state before any operation has acted.                               *)

NoHub == [output_dir |-> FALSE, hub_dir |-> FALSE, created |-> FALSE, genome |-> <<>>,
          plan |-> <<>>, tracks |-> <<>>, rendered |-> FALSE]
NoError == [type |-> "", columns |-> {}]

Fresh ==
    /\ sample_metadata = EmptyParams
    /\ rows_read = 0
    /\ track_files = <<>>
    /\ merged = <<>>
    /\ groupings = <<>>
    /\ hub = NoHub
    /\ error = NoError
    /\ warnings = <<>>

----------------------------------------------------------------------------
(* Hub assembly: create_unified_hub, and main.                             *)

Str_hg38 == <<"h", "g", "3", "8">>
Str_hg19 == <<"h", "g", "1", "9">>
Str_mm10 == <<"m", "m", "1", "0">>
Str_GRCh38 == <<"G", "R", "C", "h", "3", "8">>
Str_GRCh37 == <<"G", "R", "C", "h", "3", "7">>
Str_None == <<"N", "o", "n", "e">>
Str_composite == <<"c", "o", "m", "p", "o", "s", "i", "t", "e", "_">>

\* str.startswith
StartsWith(s, prefix) == Len(s) >= Len(prefix) /\ Prefix(s, Len(prefix)) = prefix

\* str.replace(old, new): every occurrence of old, left to right
RECURSIVE Replace(_, _, _)
Replace(s, old, new) ==
    IF Len(s) < Len(old) THEN s
    ELSE IF StartsWith(s, old) THEN new \o Replace(Suffix(s, Len(old) + 1), old, new)
    ELSE <<Head(s)>> \o Replace(Tail(s), old, new)

\* A slip: the table is applied whatever the identifier starts with
GenomeName_AnyPrefix(genome, ensembl_compatible) ==
    IF ensembl_compatible
    THEN Replace(Replace(genome, Str_hg38, Str_GRCh38), Str_hg19, Str_GRCh37)
    ELSE genome

\* The genome name handed to trackhub.default_hub
GenomeName(genome, ensembl_compatible) ==
    IF ensembl_compatible /\ StartsWith(genome, <<"h", "g">>)
    THEN Replace(Replace(genome, Str_hg38, Str_GRCh38), Str_hg19, Str_GRCh37)
    ELSE genome

\* The order of characters (code points) that sorted() uses on str
CodePointOrder ==
    <<".", "/", "0", "1", "2", "3", "4", "5", "6", "7", "8", "9",
      "A", "B", "C", "D", "E", "F", "G", "H", "I", "J", "K", "L", "M",
      "N", "O", "P", "Q", "R", "S", "T", "U", "V", "W", "X", "Y", "Z", "_",
      "a", "b", "c", "d", "e", "f", "g", "h", "i", "j", "k", "l", "m",
      "n", "o", "p", "q", "r", "s", "t", "u", "v", "w", "x", "y", "z">>

Ord(c) == IndexOf(CodePointOrder, c)

\* s < t for two str
StrLess(s, t) ==
    \/ Len(s) < Len(t) /\ Prefix(t, Len(s)) = s
    \/ \E i \in 1..Len(s) :
           /\ i <= Len(t)
           /\ Prefix(s, i - 1) = Prefix(t, i - 1)
           /\ Ord(s[i]) < Ord(t[i])

\* sorted(ids) for a set of str
RECURSIVE Sorted(_)
Sorted(ids) ==
    IF ids = {} THEN <<>>
    ELSE LET least == CHOOSE x \in ids : \A y \in ids \ {x} : StrLess(x, y)
         IN  <<least>> \o Sorted(ids \ {least})

RECURSIVE GroupTrackFilesBySample(_, _)

\* A slip: a later file of a sample replaces the list of that sample
GroupTrackFilesBySample_Overwrite(files, refs) ==
    IF refs = <<>> THEN [keys |-> <<>>, lists |-> EmptyParams]
    ELSE LET n == Len(refs)
             grouped_so_far == GroupTrackFilesBySample(files, Prefix(refs, n - 1))
             sample_id == files[refs[n]].sample_id
         IN  IF sample_id \notin DOMAIN grouped_so_far.lists
             THEN [keys |-> Append(grouped_so_far.keys, sample_id),
                   lists |-> Store(grouped_so_far.lists, sample_id, <<refs[n]>>)]
             ELSE [grouped_so_far EXCEPT !.lists[sample_id] = <<refs[n]>>]

\* group_track_files_by_sample over references (positions in track_files) to
\* TrackFile objects: the keys in insertion order and the list of each key
GroupTrackFilesBySample(files, refs) ==
    IF refs = <<>> THEN [keys |-> <<>>, lists |-> EmptyParams]
    ELSE LET n == Len(refs)
             grouped == GroupTrackFilesBySample(files, Prefix(refs, n - 1))
             sample_id == files[refs[n]].sample_id
         IN  IF sample_id \notin DOMAIN grouped.lists
             THEN [keys |-> Append(grouped.keys, sample_id),
                   lists |-> Store(grouped.lists, sample_id, <<refs[n]>>)]
             ELSE [grouped EXCEPT !.lists[sample_id] = Append(@, refs[n])]

RECURSIVE GroupBigbedFilesByAnnotation(_, _)

\* A slip: an empty or missing annotation_type is a key like any other
GroupBigbedFilesByAnnotation_OwnKey(files, refs) ==
    IF refs = <<>> THEN [keys |-> <<>>, lists |-> EmptyParams]
    ELSE LET n == Len(refs)
             so_far == GroupBigbedFilesByAnnotation(files, Prefix(refs, n - 1))
             annotation_type == files[refs[n]].annotation_type
         IN  IF annotation_type \notin DOMAIN so_far.lists
             THEN [keys |-> Append(so_far.keys, annotation_type),
                   lists |-> Store(so_far.lists, annotation_type, <<refs[n]>>)]
             ELSE [so_far EXCEPT !.lists[annotation_type] = Append(@, refs[n])]

\* group_bigbed_files_by_annotation, likewise; "x or 'default'" is 'default'
\* for an annotation_type that is empty or None
GroupBigbedFilesByAnnotation(files, refs) ==
    IF refs = <<>> THEN [keys |-> <<>>, lists |-> EmptyParams]
    ELSE LET n == Len(refs)
             so_far == GroupBigbedFilesByAnnotation(files, Prefix(refs, n - 1))
             own == files[refs[n]].annotation_type
             annotation_type == IF own = <<>> \/ own = None THEN Str_default ELSE own
         IN  IF annotation_type \notin DOMAIN so_far.lists
             THEN [keys |-> Append(so_far.keys, annotation_type),
                   lists |-> Store(so_far.lists, annotation_type, <<refs[n]>>)]
             ELSE [so_far EXCEPT !.lists[annotation_type] = Append(@, refs[n])]

\* A grouping call as it is recorded: the function, the objects passed and the
\* dictionary returned
Call(by, refs, returned) ==
    [by |-> by, of |-> refs, keys |-> returned.keys, lists |-> returned.lists]

RefsOfType(files, track_type) ==
    SelectSeq([i \in 1..Len(files) |-> i], LAMBDA i : files[i].track_type = track_type)

\* dict.get(key, [])
GetList(grouped, key) == IF key \in DOMAIN grouped.lists THEN grouped.lists[key] ELSE <<>>

\* The order in which create_unified_hub's loops reach the TrackFile objects
RECURSIVE TracksInOrder(_, _, _)
TracksInOrder(sample_ids, bigwig_samples, bigbed_samples) ==
    IF sample_ids = <<>> THEN <<>>
    ELSE GetList(bigwig_samples, Head(sample_ids))
         \o GetList(bigbed_samples, Head(sample_ids))
         \o TracksInOrder(Tail(sample_ids), bigwig_samples, bigbed_samples)

\* f"{sample_id}"
Format(value) == IF value = None THEN Str_None ELSE value

Truthy(list) == list # <<>>

\* main, from the command line to the loading of the sample sheet
Start ==
    /\ pc = "start"
    /\ IF ~Truthy(args.bigwig) /\ ~Truthy(args.bigbed)
       THEN /\ pc' = "done"
            /\ warnings' = Append(warnings, "error: no patterns")
            /\ hub' = hub
       ELSE /\ hub' = [hub EXCEPT !.output_dir = TRUE]
            /\ pc' = IF args.sample_sheet.path # "" THEN "parse_sample_sheet"
                     ELSE "metadata_ready"
            /\ warnings' = warnings
    /\ UNCHANGED <<args, sample_metadata, rows_read, track_files, error, groupings, merged>>

\* find_track_files for one kind, when its patterns are given
Find(at, patterns, track_type, annotation_pattern, next) ==
    /\ pc = at
    /\ LET found == FindTrackFiles(patterns, track_type, args.sample_pattern, annotation_pattern)
       IN  IF Truthy(patterns)
           THEN /\ track_files' = track_files \o found.files
                /\ warnings' = warnings \o found.warned
           ELSE UNCHANGED <<track_files, warnings>>
    /\ pc' = next
    /\ UNCHANGED <<args, sample_metadata, rows_read, hub, error, groupings, merged>>

\* apply_sample_metadata for the files of one kind, when there are files and
\* metadata
Apply(at, track_type, next) ==
    /\ pc = at
    /\ LET refs == RefsOfType(track_files, track_type)
           applied == ApplySampleMetadata(track_files, Head(refs), sample_metadata)
       IN  IF refs # <<>> /\ DOMAIN sample_metadata # {}
           THEN /\ track_files' = applied.files
                /\ merged' = merged \o applied.visited
                /\ warnings' = warnings \o applied.warned
                /\ IF applied.raised # ""
                   THEN error' = Fail(applied.raised, {}) /\ pc' = "fatal"
                   ELSE error' = error /\ pc' = next
           ELSE /\ pc' = next
                /\ UNCHANGED <<track_files, merged, warnings, error>>
    /\ UNCHANGED <<args, sample_metadata, rows_read, hub, groupings>>

FindBigwig == Find("metadata_ready", args.bigwig, Str_bigwig, NoPattern, "apply_bigwig")
ApplyBigwig == Apply("apply_bigwig", Str_bigwig, "find_bigbed")
FindBigbed == Find("find_bigbed", args.bigbed, Str_bigbed, args.annotation_pattern, "apply_bigbed")
ApplyBigbed == Apply("apply_bigbed", Str_bigbed, "create_hub")

\* create_unified_hub up to its loop over the samples
CreateHub ==
    /\ pc = "create_hub"
    /\ LET bigwig_files == RefsOfType(track_files, Str_bigwig)
           bigbed_files == RefsOfType(track_files, Str_bigbed)
           bigwig_samples == GroupTrackFilesBySample(track_files, bigwig_files)
           bigbed_samples == GroupTrackFilesBySample(track_files, bigbed_files)
           calls == (IF bigwig_files = <<>> THEN <<>>
                     ELSE <<Call("sample_id", bigwig_files, bigwig_samples)>>)
                    \o (IF bigbed_files = <<>> THEN <<>>
                        ELSE <<Call("sample_id", bigbed_files, bigbed_samples)>>)
           all_sample_ids == DOMAIN bigwig_samples.lists \cup DOMAIN bigbed_samples.lists
           made == [hub EXCEPT !.hub_dir = TRUE,
                               !.created = TRUE,
                               !.genome = GenomeName(args.genome, args.ensembl_compatible)]
       IN  IF track_files = <<>>
           THEN pc' = "done" /\ UNCHANGED <<hub, error, groupings>>
           ELSE IF None \in all_sample_ids /\ all_sample_ids # {None}
           THEN /\ hub' = made
                /\ groupings' = groupings \o calls
                /\ error' = Fail("TypeError", {})
                /\ pc' = "fatal"
           ELSE /\ hub' = [made EXCEPT !.plan =
                              TracksInOrder(IF all_sample_ids = {None} THEN <<None>>
                                            ELSE Sorted(all_sample_ids),
                                            bigwig_samples, bigbed_samples)]
                /\ groupings' = groupings \o calls
                /\ error' = error
                /\ pc' = "add_tracks"
    /\ UNCHANGED <<args, sample_metadata, rows_read, track_files, warnings, merged>>

\* One TrackFile is projected and its track added to the hub
AddTrack ==
    /\ pc = "add_tracks"
    /\ Len(hub.tracks) < Len(hub.plan)
    /\ LET ref == hub.plan[Len(hub.tracks) + 1]
           tf == track_files[ref]
           got == GetTrackParams(tf, args.ensembl_compatible)
           composite == IF args.ensembl_compatible THEN <<>>
                        ELSE Str_composite \o Format(tf.sample_id) \o <<"_">> \o tf.track_type
       IN  /\ track_files' = [track_files EXCEPT ![ref] = got.tf]
           /\ hub' = [hub EXCEPT !.tracks =
                         Append(@, [file |-> ref, composite |-> composite, params |-> got.params])]
    /\ UNCHANGED <<pc, args, sample_metadata, rows_read, error, warnings, groupings, merged>>

\* A slip: hub.render is called while TrackFile objects are still to be projected
Render_Early ==
    /\ pc = "add_tracks"
    /\ hub' = [hub EXCEPT !.rendered = TRUE]
    /\ pc' = "done"
    /\ UNCHANGED <<args, sample_metadata, rows_read, track_files, error, warnings, groupings, merged>>

\* hub.render, and the end of main
Render ==
    /\ pc = "add_tracks"
    /\ Len(hub.tracks) = Len(hub.plan)
    /\ hub' = [hub EXCEPT !.rendered = TRUE]
    /\ pc' = "done"
    /\ UNCHANGED <<args, sample_metadata, rows_read, track_files, error, warnings, groupings, merged>>

Next ==
    \/ Start
    \/ OpenSheet
    \/ ReadRow
    \/ EndSheet
    \/ FindBigwig
    \/ ApplyBigwig
    \/ FindBigbed
    \/ ApplyBigbed
    \/ CreateHub
    \/ AddTrack
    \/ Render

----------------------------------------------------------------------------
(* SpecExtract: one TrackFile is constructed for a file path, a track kind *)
(* and the two identity rules, drawn from bounded sets.                    *)

Dirs == {<<>>, <<"d", "/">>}

ExtractInputs ==
    {[file_path |-> d \o n, track_type |-> t, sample_pattern |-> sp, annotation_pattern |-> ap] :
        d \in Dirs, n \in FileNames \cup {ExampleName}, t \in {Str_bigwig, Str_bigbed},
        sp \in Patterns, ap \in Patterns}

\* find_track_files passes annotation_pattern = None for bigwig files (main)
InitExtract ==
    /\ pc = "construct"
    /\ args \in {a \in ExtractInputs :
                    a.track_type = Str_bigwig => a.annotation_pattern = NoPattern}
    /\ Fresh

Construct ==
    /\ pc = "construct"
    /\ track_files' = <<NewTrackFile(args.file_path, args.track_type,
                                     args.sample_pattern, args.annotation_pattern)>>
    /\ pc' = "constructed"
    /\ UNCHANGED <<args, sample_metadata, rows_read, hub, error, warnings, groupings, merged>>

NextExtract == Construct

SpecExtract == InitExtract /\ [][NextExtract]_vars

Constructed == pc = "constructed"

\* The part of s before the first character of the set stop (all of s if none)
CutAtFirst(s, stop) ==
    IF \E i \in 1..Len(s) : s[i] \in stop
    THEN Prefix(s, (CHOOSE i \in 1..Len(s) : s[i] \in stop /\ \A j \in 1..(i - 1) : s[j] \notin stop) - 1)
    ELSE s

\* C1: with no annotation-type rule, a bigbed descriptor's annotation_type is the
\* second underscore-delimited token of the extension-stripped base name when
\* there are at least two tokens, otherwise "default"; and the file name
\* SampleA_macs2peaks.narrowPeak.bb resolves to annotation_type "macs2peaks",
\* sample_id "SampleA".
C1_DefaultAnnotationType ==
    (Constructed /\ args.track_type = Str_bigbed /\ args.annotation_pattern = NoPattern) =>
        LET tf == track_files[1]
            b == tf.basename
            i == IndexOf(b, "_")
        IN  /\ tf.annotation_type =
                   IF i = 0 THEN Str_default ELSE CutAtFirst(Suffix(b, i + 1), {"_"})
            /\ (tf.filename = ExampleName /\ args.sample_pattern = NoPattern) =>
                   /\ tf.annotation_type = Str_macs2peaks
                   /\ tf.sample_id = Str_SampleA

\* C2: with no sample-id rule, sample_id is the file name without its trailing
\* extension, cut at the first dot and then at the first underscore.
C2_DefaultSampleId ==
    (Constructed /\ args.sample_pattern = NoPattern) =>
        LET tf == track_files[1]
            f == tf.filename
            b == tf.basename
            ext == Suffix(f, Len(b) + 1)
        IN  /\ f = Suffix(args.file_path, Len(args.file_path) - Len(f) + 1)
            /\ "/" \notin {f[i] : i \in 1..Len(f)}
            /\ b = Prefix(f, Len(b))
            /\ ext # <<>> => ext[1] = "." /\ \A i \in 2..Len(ext) : ext[i] # "."
            /\ tf.sample_id = CutAtFirst(CutAtFirst(b, {"."}), {"_"})

C2_Witness ==
    /\ Constructed
    /\ args.sample_pattern = NoPattern
    /\ track_files[1].filename = <<"a", ".", "b", "_">>
    /\ track_files[1].sample_id = <<"a">>

\* C3: whatever the file name and the sample-id rule, the constructed
\* descriptor's sample_id is a non-empty string.
C3_SampleIdNonEmpty ==
    Constructed => track_files[1].sample_id # None /\ Len(track_files[1].sample_id) > 0

\* C4: a rule that does not match, or matches without its named group supplying
\* a value, yields the default rule's value; the identity is always the captured
\* text or the default rule's value.
C4_RuleFallsBack ==
    Constructed =>
        LET tf == track_files[1]
            sm == Search(args.sample_pattern, tf.filename)
            am == Search(args.annotation_pattern, tf.filename)
            Supplies(pattern, m, g) ==
                pattern.compiled /\ m.matched /\ g \in DOMAIN m.groupdict /\ m.groupdict[g] # None
        IN  /\ tf.sample_id =
                   IF Supplies(args.sample_pattern, sm, "sample_id")
                   THEN sm.groupdict["sample_id"]
                   ELSE DefaultSampleId(tf.basename)
            /\ tf.track_type = Str_bigbed =>
                   tf.annotation_type =
                       IF Supplies(args.annotation_pattern, am, "annotation_type")
                       THEN am.groupdict["annotation_type"]
                       ELSE DefaultAnnotationType(tf.basename)

----------------------------------------------------------------------------
(* SpecSheet: parse_sample_sheet on a sheet drawn from bounded sets.       *)

RECURSIVE SeqsUpTo(_, _)
SeqsUpTo(S, n) ==
    IF n = 0 THEN {<<>>}
    ELSE LET shorter == SeqsUpTo(S, n - 1)
         IN  shorter \cup {Append(q, e) : q \in {t \in shorter : Len(t) = n - 1}, e \in S}


SheetIds == {Str_a, <<" ", "a">>, <<" ">>}
SheetTexts == {"", Text_AutoScaleOff, Text_SingleQuoted, Text_Truncated, Text_ListOfNumber}

RowsWithParams ==
    {[sample_id |-> id, short_label |-> l, additional_params |-> t] :
        id \in SheetIds, l \in {Str_L1, Str_L2}, t \in SheetTexts}
RowsOfIdOnly == {[sample_id |-> id] : id \in SheetIds}

Sheets ==
    {Sheet(TRUE, {"sample_id", "short_label", "additional_params"}, rows) :
        rows \in SeqsUpTo(RowsWithParams, MaxRows)}
    \cup {Sheet(TRUE, {"sample_id"}, rows) : rows \in SeqsUpTo(RowsOfIdOnly, MaxRows)}
    \cup {Sheet(TRUE, {"short_label"}, <<[short_label |-> Str_L1]>>),
          Sheet(TRUE, NoFieldnames, <<>>),
          Sheet(FALSE, NoFieldnames, <<>>)}

InitSheet ==
    /\ pc = "parse_sample_sheet"
    /\ args \in {[sample_sheet |-> sh] : sh \in Sheets}
    /\ Fresh

NextSheet == OpenSheet \/ ReadRow \/ EndSheet

SpecSheet == InitSheet /\ [][NextSheet]_vars

NonBlank(s) == \E i \in 1..Len(s) : s[i] \notin Whitespace

\* The rows read so far that carry sample_id = id
Carrying(id) ==
    {i \in 1..rows_read : args.sample_sheet.rows[i]["sample_id"] = id}

Last(S) == CHOOSE i \in S : \A j \in S : j <= i

\* C5: the lookup entry of each sample_id is the SampleMetadata built from the
\* last row read that carries it, every field replaced; rows whose sample_id is
\* blank after trimming contribute no entry.
C5_LastRowWins ==
    LET rows == args.sample_sheet.rows
        ids == {rows[i]["sample_id"] : i \in 1..rows_read} \cup DOMAIN sample_metadata
    IN  \A id \in ids :
            /\ id \in DOMAIN sample_metadata <=> (NonBlank(id) /\ Carrying(id) # {})
            /\ id \in DOMAIN sample_metadata =>
                   LET row == rows[Last(Carrying(id))]
                       md == sample_metadata[id]
                   IN  /\ md = NewSampleMetadata(row).md
                       /\ md.sample_id = id
                       /\ "short_label" \in DOMAIN row => md.short_label = row["short_label"]

C5_Witness ==
    /\ pc = "metadata_ready"
    /\ rows_read = 2
    /\ args.sample_sheet.rows[1]["sample_id"] = Str_a
    /\ args.sample_sheet.rows[2]["sample_id"] = Str_a
    /\ "short_label" \in DOMAIN args.sample_sheet.rows[1]
    /\ args.sample_sheet.rows[1]["short_label"] = Str_L1
    /\ args.sample_sheet.rows[2]["short_label"] = Str_L2
    /\ sample_metadata[Str_a].short_label = Str_L2

\* The rows read so far whose additional_params text is malformed
MalformedRows ==
    {i \in 1..rows_read :
        /\ "additional_params" \in DOMAIN args.sample_sheet.rows[i]
        /\ args.sample_sheet.rows[i]["additional_params"] \in MalformedTexts}

\* C6: a row with malformed additional_params text does not abort the run; the
\* row is loaded with the empty mapping as its additional_params and the other
\* rows are loaded as usual.
C6_MalformedParamsTolerated ==
    LET rows == args.sample_sheet.rows
    IN  MalformedRows # {} =>
            /\ pc \in {"read_rows", "metadata_ready"}
            /\ error = NoError
            /\ \A i \in 1..rows_read :
                   LET id == rows[i]["sample_id"]
                   IN  NonBlank(id) =>
                           /\ id \in DOMAIN sample_metadata
                           /\ (i \in MalformedRows /\ i = Last(Carrying(id))) =>
                                  sample_metadata[id].additional_params = JsonDict(EmptyParams)
                           /\ (i \notin MalformedRows /\ i = Last(Carrying(id))
                               /\ rows[i]["additional_params"] = Text_AutoScaleOff) =>
                                  sample_metadata[id].additional_params.dict = [autoScale |-> Str_off]
            /\ pc = "read_rows" => ENABLED (ReadRow \/ EndSheet)

C6_Witness ==
    /\ pc = "metadata_ready"
    /\ rows_read = 2
    /\ "additional_params" \in args.sample_sheet.fieldnames
    /\ args.sample_sheet.rows[1]["sample_id"] = Str_a
    /\ args.sample_sheet.rows[1]["additional_params"] = Text_SingleQuoted
    /\ args.sample_sheet.rows[2]["sample_id"] = <<" ", "a">>
    /\ args.sample_sheet.rows[2]["additional_params"] = Text_AutoScaleOff
    /\ sample_metadata[Str_a].additional_params = JsonDict(EmptyParams)
    /\ sample_metadata[<<" ", "a">>].additional_params.dict = [autoScale |-> Str_off]
    /\ warnings = <<"additional_params">>

----------------------------------------------------------------------------
(* Spec: runs of the create command on command lines, file systems and     *)
(* sheets drawn from explicit sets.                                        *)

Str_S1 == <<"S", "1">>
Str_S2 == <<"S", "2">>
Path_S1_bw == <<"d", "/", "S", "1", ".", "b", "w">>
Path_S2_rep1_bw == <<"d", "/", "S", "2", "_", "r", "e", "p", "1", ".", "b", "w">>
Path_S1_peaks_bb == <<"d", "/", "S", "1", "_", "p", "e", "a", "k", "s", ".", "n", "a", "r", "r", "o", "w", "P", "e", "a", "k", ".", "b", "b">>
Path_S2_bb == <<"d", "/", "S", "2", ".", "b", "b">>
Path_x_bb == <<"d", "/", "_", "x", ".", "b", "b">>

AllColumns ==
    {"sample_id", "short_label", "long_label", "color", "visibility", "priority",
     "additional_params"}

Row(id, label, color, visibility, priority, text) ==
    [sample_id |-> id, short_label |-> label, long_label |-> label, color |-> color,
     visibility |-> visibility, priority |-> priority, additional_params |-> text]

Row_S1 == Row(Str_S1, Str_L1, Str_255_0_0, Str_dense, Str_2, Text_AutoScaleOff)
Row_S1_Plain == Row(Str_S1, Str_L2, <<>>, <<>>, <<>>, "")
Row_S1_Malformed == Row(Str_S1, Str_L1, <<>>, <<>>, Str_2, Text_SingleQuoted)
Row_S2_List == Row(Str_S2, Str_L2, <<>>, Str_dense, Str_2, Text_ListOfNumber)
Row_S2_Pair == Row(Str_S2, Str_L2, Str_255_0_0, <<>>, Str_2, Text_ListOfPair)
Row_Blank == Row(<<" ">>, Str_L1, <<>>, <<>>, Str_1, Text_AutoScaleOff)

MainSheets ==
    {NoSheet,
     Sheet(FALSE, NoFieldnames, <<>>),
     Sheet(TRUE, NoFieldnames, <<>>),
     Sheet(TRUE, {"short_label", "color"}, <<[short_label |-> Str_L1, color |-> <<>>]>>),
     Sheet(TRUE, AllColumns, <<>>),
     Sheet(TRUE, AllColumns, <<Row_S1>>),
     Sheet(TRUE, AllColumns, <<Row_S1, Row_S1_Plain>>),
     Sheet(TRUE, AllColumns, <<Row_S2_List>>),
     Sheet(TRUE, AllColumns, <<Row_S1, Row_S2_Pair>>),
     Sheet(TRUE, AllColumns, <<Row_Blank, Row_S1_Malformed>>)}

\* --bigwig and --bigbed: for each pattern given, the paths glob.glob returns
BigwigPatterns ==
    {<<>>,
     <<<<Path_S1_bw>>>>,
     <<<<>>, <<Path_S1_bw, Path_S2_rep1_bw>>>>,
     <<<<Path_S2_rep1_bw, Path_S1_bw>>, <<Path_S1_bw>>>>}

BigbedPatterns ==
    {<<>>,
     <<<<Path_S1_peaks_bb>>>>,
     <<<<Path_x_bb>>, <<>>>>,
     <<<<Path_S2_bb, Path_S1_peaks_bb>>>>}

SamplePattern_Optional ==
    [compiled |-> TRUE, delim |-> "_", group |-> "sample_id", optional |-> TRUE]
AnnotationPattern_Named ==
    [compiled |-> TRUE, delim |-> "_", group |-> "annotation_type", optional |-> FALSE]

MainArgs ==
    [sample_sheet : MainSheets,
     bigwig : BigwigPatterns,
     bigbed : BigbedPatterns,
     sample_pattern : {NoPattern, SamplePattern_Optional},
     annotation_pattern : {NoPattern, AnnotationPattern_Named},
     genome : {Str_hg38, Str_mm10},
     ensembl_compatible : BOOLEAN]

Init ==
    /\ pc = "start"
    /\ args \in MainArgs
    /\ Fresh

Spec == Init /\ [][Next]_vars

\* C7: in every state of a run the additional_params of every SampleMetadata and
\* of every TrackFile is a mapping with string keys.
C7_ParamsAlwaysMapping ==
    /\ \A id \in DOMAIN sample_metadata :
           sample_metadata[id].additional_params.type = "dict"
    /\ \A i \in 1..Len(track_files) :
           \A k \in DOMAIN track_files[i].additional_params : k \in STRING

\* C8: when the sheet cannot be read or lacks the sample_id column, the run ends
\* in a fatal error that names every missing column, before any hub is
\* assembled or rendered and before anything is written under the output
\* directory.
C8_MissingColumnFatal ==
    LET sheet == args.sample_sheet
        present == IF sheet.fieldnames = NoFieldnames THEN {} ELSE sheet.fieldnames
    IN  (/\ sheet.path # ""
         /\ ~sheet.readable \/ "sample_id" \notin present
         /\ Truthy(args.bigwig) \/ Truthy(args.bigbed)
         /\ pc \notin {"start", "parse_sample_sheet"}) =>
            /\ pc = "fatal"
            /\ sheet.readable => error.type = "ValueError" /\ error.columns = {"sample_id"}
            /\ ~hub.hub_dir /\ ~hub.created /\ ~hub.rendered
            /\ hub.tracks = <<>> /\ track_files = <<>>

----------------------------------------------------------------------------
(* SpecTrack: runs of the create command with one sheet row drawn from a   *)
(* wide set, for at most one file of each kind.                            *)

TrackRows ==
    {Row(id, Str_L1, color, visibility, Str_2, text) :
        id \in {Str_S1, Str_S2}, color \in {<<>>, Str_255_0_0},
        visibility \in {<<>>, Str_dense}, text \in ParamTexts}

InitTrack ==
    /\ pc = "start"
    /\ args \in [sample_sheet : {Sheet(TRUE, AllColumns, <<row>>) : row \in TrackRows},
                 bigwig : {<<>>, <<<<Path_S1_bw>>>>},
                 bigbed : {<<>>, <<<<Path_S1_peaks_bb>>>>},
                 sample_pattern : {NoPattern},
                 annotation_pattern : {NoPattern},
                 genome : {Str_hg38},
                 ensembl_compatible : BOOLEAN]
    /\ Fresh

SpecTrack == InitTrack /\ [][Next]_vars

\* The step is a call of get_track_params, on the TrackFile Projected
Projecting == Len(hub'.tracks) = Len(hub.tracks) + 1
Projected == track_files[hub.plan[Len(hub.tracks) + 1]]
ProjectedParams == hub'.tracks[Len(hub'.tracks)].params

DefaultColor(tf) == IF tf.track_type = Str_bigwig THEN Str_0_0_100 ELSE Str_0_100_0
DefaultVisibility(tf) == IF tf.track_type = Str_bigwig THEN Str_full ELSE Str_pack

\* C9: get_track_params yields color 0,0,100 and visibility full for a bigwig
\* descriptor whose color and visibility are empty, 0,100,0 and pack for a
\* bigbed one, and the descriptor's own value when it is not empty.
C9_ProjectedDefaults ==
    [][Projecting =>
          /\ ProjectedParams["color"] =
                 IF Projected.color = <<>> THEN DefaultColor(Projected) ELSE Projected.color
          /\ ProjectedParams["visibility"] =
                 IF Projected.visibility = <<>> THEN DefaultVisibility(Projected)
                 ELSE Projected.visibility]_vars

\* C9, amended: the same, for a descriptor whose additional_params has no color
\* (respectively visibility) key; a key of additional_params is projected with
\* its own value.
C9_ProjectedDefaultsUnlessOverridden ==
    [][Projecting =>
          /\ ProjectedParams["color"] =
                 IF "color" \in DOMAIN Projected.additional_params
                 THEN Projected.additional_params["color"]
                 ELSE IF Projected.color = <<>> THEN DefaultColor(Projected)
                 ELSE Projected.color
          /\ ProjectedParams["visibility"] =
                 IF "visibility" \in DOMAIN Projected.additional_params
                 THEN Projected.additional_params["visibility"]
                 ELSE IF Projected.visibility = <<>> THEN DefaultVisibility(Projected)
                 ELSE Projected.visibility]_vars

C9_Witness ==
    /\ pc = "done"
    /\ Len(hub.tracks) = 2
    /\ args.sample_sheet.rows[1]["color"] = <<>>
    /\ args.sample_sheet.rows[1]["visibility"] = <<>>
    /\ args.sample_sheet.rows[1]["additional_params"] = Text_AutoScaleOff
    /\ track_files[hub.tracks[1].file].track_type = Str_bigwig
    /\ hub.tracks[1].params["color"] = Str_0_0_100
    /\ hub.tracks[1].params["visibility"] = Str_full
    /\ track_files[hub.tracks[2].file].track_type = Str_bigbed
    /\ hub.tracks[2].params["color"] = Str_0_100_0
    /\ hub.tracks[2].params["visibility"] = Str_pack

\* C10: every key of a descriptor's additional_params has its additional_params
\* value in the projected parameter map, whichever computed or mode-specific
\* parameter shares the key; {"autoScale": "off"} on a bigwig descriptor
\* projects autoScale = off and still alwaysZero = on.
C10_AdditionalParamsWin ==
    \A j \in 1..Len(hub.tracks) :
        LET params == hub.tracks[j].params
            tf == track_files[hub.tracks[j].file]
        IN  /\ \A k \in DOMAIN tf.additional_params :
                   k \in DOMAIN params /\ params[k] = tf.additional_params[k]
            /\ (tf.track_type = Str_bigwig /\ DOMAIN tf.additional_params = {"autoScale"}
                /\ tf.additional_params["autoScale"] = Str_off) =>
                   params["autoScale"] = Str_off /\ params["alwaysZero"] = Str_on

C10_WitnessEveryKey ==
    /\ pc = "done"
    /\ args.ensembl_compatible
    /\ \E j \in 1..Len(hub.tracks) :
           /\ track_files[hub.tracks[j].file].track_type = Str_bigwig
           /\ DOMAIN track_files[hub.tracks[j].file].additional_params = EveryParamKey
           /\ \A k \in EveryParamKey : hub.tracks[j].params[k] = Str_x

C10_Witness ==
    /\ pc = "done"
    /\ \E j \in 1..Len(hub.tracks) :
           /\ track_files[hub.tracks[j].file].track_type = Str_bigwig
           /\ DOMAIN track_files[hub.tracks[j].file].additional_params = {"autoScale"}
           /\ hub.tracks[j].params["autoScale"] = Str_off
           /\ hub.tracks[j].params["alwaysZero"] = Str_on

----------------------------------------------------------------------------
(* SpecGenome: runs of the create command over genome identifiers, in both *)
(* modes, on one file of either kind.                                      *)

Str_hg18 == <<"h", "g", "1", "8">>
Str_hg38_alt == Str_hg38 \o <<"_", "a", "l", "t">>
Str_GRCh38_alt == Str_GRCh38 \o <<"_", "a", "l", "t">>
Str_xhg38 == <<"x">> \o Str_hg38
Str_hg19hg38 == Str_hg19 \o Str_hg38

Genomes ==
    {Str_hg38, Str_hg19, Str_mm10, Str_hg18, Str_GRCh38, Str_hg38_alt, Str_xhg38,
     Str_hg19hg38, <<"h", "g">>, <<"h">>}

InitGenome ==
    /\ pc = "start"
    /\ args \in [sample_sheet : {NoSheet, Sheet(TRUE, AllColumns, <<Row_S1>>)},
                 bigwig : {<<>>, <<<<Path_S1_bw>>>>},
                 bigbed : {<<>>, <<<<Path_S2_bb>>>>},
                 sample_pattern : {NoPattern},
                 annotation_pattern : {NoPattern},
                 genome : Genomes,
                 ensembl_compatible : BOOLEAN]
    /\ Fresh

SpecGenome == InitGenome /\ [][Next]_vars

\* sub occurs in s
Contains(s, sub) ==
    \E i \in 1..(Len(s) - Len(sub) + 1) : SubSeq(s, i, i + Len(sub) - 1) = sub

\* C11: in cross-compatible mode hg38 becomes GRCh38 and hg19 becomes GRCh37;
\* every identifier that is not hg38 or hg19 reaches the hub unchanged; in
\* native mode every identifier reaches the hub unchanged.
C11_GenomeTranslation ==
    hub.created =>
        /\ (args.ensembl_compatible /\ args.genome = Str_hg38) => hub.genome = Str_GRCh38
        /\ (args.ensembl_compatible /\ args.genome = Str_hg19) => hub.genome = Str_GRCh37
        /\ args.genome \notin {Str_hg38, Str_hg19} => hub.genome = args.genome
        /\ ~args.ensembl_compatible => hub.genome = args.genome

\* C11, amended: the same, but the identifiers that reach the hub unchanged in
\* cross-compatible mode are those that do not start with hg or contain neither
\* hg38 nor hg19; in one that starts with hg the text hg38 is replaced by GRCh38
\* and hg19 by GRCh37 wherever it occurs.
C11_GenomeTranslationOfPrefixed ==
    hub.created =>
        /\ (args.ensembl_compatible /\ args.genome = Str_hg38) => hub.genome = Str_GRCh38
        /\ (args.ensembl_compatible /\ args.genome = Str_hg19) => hub.genome = Str_GRCh37
        /\ (\/ ~StartsWith(args.genome, <<"h", "g">>)
            \/ ~Contains(args.genome, Str_hg38) /\ ~Contains(args.genome, Str_hg19)) =>
               hub.genome = args.genome
        /\ ~args.ensembl_compatible => hub.genome = args.genome
        /\ (args.ensembl_compatible /\ args.genome = Str_hg38_alt) =>
               hub.genome = Str_GRCh38_alt
        /\ (args.ensembl_compatible /\ args.genome = Str_hg19hg38) =>
               hub.genome = Str_GRCh37 \o Str_GRCh38

C11_Witness ==
    /\ pc = "done"
    /\ hub.rendered
    /\ args.ensembl_compatible
    /\ args.genome = Str_hg38
    /\ hub.genome = Str_GRCh38

----------------------------------------------------------------------------
(* SpecGroup: the files of one glob pattern are discovered and the list of *)
(* TrackFile objects is grouped by one of the two grouping functions.      *)

Path_S1_p_bb == <<"S", "1", "_", "p", ".", "b", "b">>
Path_s1_P_bb == <<"s", "1", "_", "P", ".", "b", "b">>
Path_S1__bb == <<"S", "1", "_", ".", "b", "b">>
Path__p_bb == <<"_", "p", ".", "b", "b">>
Path_S1_bb == <<"S", "1", ".", "b", "b">>
Path_sp_S1_p_bb == <<" ">> \o Path_S1_p_bb

GroupPaths ==
    {Path_S1_p_bb, Path_s1_P_bb, Path_S1__bb, Path__p_bb, Path_S1_bb, Path_sp_S1_p_bb}

AnnotationPattern_Optional ==
    [compiled |-> TRUE, delim |-> "_", group |-> "annotation_type", optional |-> TRUE]

InitGroup ==
    /\ pc = "find_track_files"
    /\ args \in [patterns : {<<files>> : files \in SeqsUpTo(GroupPaths, MaxFiles)},
                 track_type : {Str_bigwig, Str_bigbed},
                 sample_pattern : {NoPattern, SamplePattern_Optional},
                 annotation_pattern : {NoPattern, AnnotationPattern_Optional}]
    /\ Fresh

FindFiles ==
    Find("find_track_files", args.patterns, args.track_type, args.annotation_pattern, "group")

AllRefs == [i \in 1..Len(track_files) |-> i]

GroupBySample ==
    /\ pc = "group"
    /\ groupings' = Append(groupings,
           Call("sample_id", AllRefs, GroupTrackFilesBySample(track_files, AllRefs)))
    /\ pc' = "done"
    /\ UNCHANGED <<args, sample_metadata, rows_read, track_files, hub, error, warnings, merged>>

GroupByAnnotation ==
    /\ pc = "group"
    /\ args.track_type = Str_bigbed
    /\ groupings' = Append(groupings,
           Call("annotation_type", AllRefs, GroupBigbedFilesByAnnotation(track_files, AllRefs)))
    /\ pc' = "done"
    /\ UNCHANGED <<args, sample_metadata, rows_read, track_files, hub, error, warnings, merged>>

NextGroup == FindFiles \/ GroupBySample \/ GroupByAnnotation

SpecGroup == InitGroup /\ [][NextGroup]_vars

\* All groups of a returned dictionary, concatenated in key order
RECURSIVE Flatten(_, _)
Flatten(keys, lists) ==
    IF keys = <<>> THEN <<>> ELSE lists[Head(keys)] \o Flatten(Tail(keys), lists)

\* C12: for either grouping function, the groups concatenated hold every object
\* passed exactly once (none dropped, none twice, two objects of one path both
\* kept), every object is in exactly one group, and the objects of a group are
\* in the order of the list passed.
C12_GroupingKeepsEveryFile ==
    \A c \in 1..Len(groupings) :
        LET call == groupings[c]
            flat == Flatten(call.keys, call.lists)
        IN  /\ Len(flat) = Len(call.of)
            /\ \A i \in 1..Len(call.of) :
                   Cardinality({j \in 1..Len(flat) : flat[j] = call.of[i]}) = 1
            /\ \A i \in 1..Len(call.of) :
                   Cardinality({k \in DOMAIN call.lists :
                                   \E j \in 1..Len(call.lists[k]) :
                                       call.lists[k][j] = call.of[i]}) = 1
            /\ \A k \in DOMAIN call.lists :
                   \A i, j \in 1..Len(call.lists[k]) :
                       i < j => IndexOf(call.of, call.lists[k][i])
                                    < IndexOf(call.of, call.lists[k][j])
            /\ \A i \in 1..Len(call.keys) : call.keys[i] \in DOMAIN call.lists
            /\ Cardinality(DOMAIN call.lists) = Len(call.keys)

C12_Witness ==
    /\ pc = "done"
    /\ Len(groupings) = 1
    /\ groupings[1].by = "annotation_type"
    /\ Len(track_files) = 3
    /\ track_files[1].file_path = track_files[3].file_path
    /\ track_files[1].file_path # track_files[2].file_path
    /\ Len(groupings[1].keys) = 2
    /\ groupings[1].lists[groupings[1].keys[1]] = <<1, 3>>
    /\ groupings[1].lists[groupings[1].keys[2]] = <<2>>

C12_WitnessBySample ==
    /\ pc = "done"
    /\ Len(groupings) = 1
    /\ groupings[1].by = "sample_id"
    /\ Len(track_files) = 3
    /\ track_files[1].file_path = track_files[3].file_path
    /\ groupings[1].keys = <<Str_S1, None>>
    /\ groupings[1].lists[Str_S1] = <<1, 3>>
    /\ groupings[1].lists[None] = <<2>>

----------------------------------------------------------------------------
(* SpecFind: find_track_files on lists of glob patterns, each given by the *)
(* paths glob.glob returns for it.                                         *)

GlobResults ==
    {<<>>, <<Path_S1_bw>>, <<Path_S2_rep1_bw>>, <<Path_S1_bw, Path_S2_rep1_bw>>,
     <<Path_S2_rep1_bw, Path_S1_bw>>}

InitFind ==
    /\ pc = "find_track_files"
    /\ args \in [patterns : SeqsUpTo(GlobResults, MaxPatterns),
                 track_type : {Str_bigwig, Str_bigbed},
                 sample_pattern : {NoPattern, SamplePattern_Optional},
                 annotation_pattern : {NoPattern}]
    /\ Fresh

NextFind == FindFiles

SpecFind == InitFind /\ [][NextFind]_vars

\* The paths of all patterns, in pattern order
RECURSIVE Matches(_)
Matches(patterns) ==
    IF patterns = <<>> THEN <<>> ELSE Head(patterns) \o Matches(Tail(patterns))

\* C13: find_track_files ends without an error whatever patterns match no file;
\* it logs one warning for each such pattern and returns one TrackFile for each
\* pair of a pattern and a path it matches, in pattern order, so a path matched
\* by two patterns has two TrackFile objects.
C13_EmptyPatternSkipped ==
    pc = "group" =>
        /\ error = NoError
        /\ Len(track_files) = Len(Matches(args.patterns))
        /\ \A i \in 1..Len(track_files) :
               /\ track_files[i].file_path = Matches(args.patterns)[i]
               /\ track_files[i].track_type = args.track_type
        /\ Len(warnings) = Cardinality({i \in 1..Len(args.patterns) : args.patterns[i] = <<>>})

C13_Witness ==
    /\ pc = "group"
    /\ args.patterns = <<<<Path_S1_bw>>, <<>>, <<Path_S2_rep1_bw, Path_S1_bw>>>>
    /\ Len(track_files) = 3
    /\ track_files[1].file_path = Path_S1_bw
    /\ track_files[3].file_path = Path_S1_bw
    /\ warnings = <<"no files">>

----------------------------------------------------------------------------
(* SpecMerge: apply_sample_metadata on one TrackFile, whose color and      *)
(* visibility may have been assigned, and the metadata of at most one row. *)

MergeFiles ==
    {[NewTrackFile(path, track_type, NoPattern, NoPattern)
         EXCEPT !.color = color, !.visibility = visibility] :
        path \in {Path_S1_bw, Path_S2_rep1_bw}, track_type \in {Str_bigwig, Str_bigbed},
        color \in {<<>>, Str_0_100_0}, visibility \in {<<>>, Str_pack}}

InitMerge ==
    /\ pc = "apply_sample_metadata"
    /\ args \in [track_file : MergeFiles]
    /\ sample_metadata \in {EmptyParams} \cup {StoreRow(EmptyParams, row) : row \in TrackRows}
    /\ track_files = <<args.track_file>>
    /\ rows_read = 0
    /\ merged = <<>>
    /\ groupings = <<>>
    /\ hub = NoHub
    /\ error = NoError
    /\ warnings = <<>>

Merge == Apply("apply_sample_metadata", args.track_file.track_type, "done")

NextMerge == Merge

SpecMerge == InitMerge /\ [][NextMerge]_vars

\* C14: after the merge a TrackFile whose sample_id has a sheet entry has the
\* entry's short_label and long_label, and the entry's color (visibility) if its
\* own was empty, else its own; a TrackFile without a sheet entry is unchanged
\* in every field.
C14_MergeRule ==
    pc \in {"done", "fatal"} =>
        LET before == args.track_file
            after == track_files[1]
        IN  IF before.sample_id \in DOMAIN sample_metadata
            THEN LET metadata == sample_metadata[before.sample_id]
                 IN  /\ after.short_label = metadata.short_label
                     /\ after.long_label = metadata.long_label
                     /\ after.color = IF before.color = <<>> THEN metadata.color
                                      ELSE before.color
                     /\ after.visibility = IF before.visibility = <<>>
                                           THEN metadata.visibility ELSE before.visibility
            ELSE after = before

C14_Witness ==
    /\ pc = "done"
    /\ args.track_file.sample_id \in DOMAIN sample_metadata
    /\ args.track_file.color = Str_0_100_0
    /\ args.track_file.visibility = <<>>
    /\ sample_metadata[args.track_file.sample_id].color = Str_255_0_0
    /\ sample_metadata[args.track_file.sample_id].visibility = Str_dense
    /\ track_files[1].color = Str_0_100_0
    /\ track_files[1].visibility = Str_dense
    /\ track_files[1].short_label = Str_L1
    /\ args.track_file.short_label # Str_L1

C14_WitnessNoEntry ==
    /\ pc = "done"
    /\ DOMAIN sample_metadata # {}
    /\ args.track_file.sample_id \notin DOMAIN sample_metadata
    /\ track_files[1] = args.track_file
    /\ warnings = <<"no metadata">>

----------------------------------------------------------------------------
(* The priority of a TrackFile, in the runs of SpecTrack (every sheet row  *)
(* declares priority 2).                                                   *)

\* C15: every TrackFile has priority 1 in every state of a run, before and
\* after the merge, whatever priority its sheet row declares; the projected
\* priority is 1 unless additional_params has a priority key.
C15_PriorityStaysDefault ==
    /\ \A i \in 1..Len(track_files) : track_files[i].priority = Str_1
    /\ \A j \in 1..Len(hub.tracks) :
           "priority" \notin DOMAIN track_files[hub.tracks[j].file].additional_params =>
               hub.tracks[j].params["priority"] = Str_1

C15_Witness ==
    /\ pc = "done"
    /\ hub.rendered
    /\ \E j \in 1..Len(hub.tracks) :
           LET tf == track_files[hub.tracks[j].file]
           IN  /\ tf.sample_id \in DOMAIN sample_metadata
               /\ sample_metadata[tf.sample_id].priority = Str_2
               /\ tf.short_label = Str_L1
               /\ "priority" \notin DOMAIN tf.additional_params
               /\ tf.priority = Str_1
               /\ hub.tracks[j].params["priority"] = Str_1

----------------------------------------------------------------------------
(* The TrackFile objects after the merge, in the runs of Spec.             *)

\* C16: no step reassigns the track_type of a TrackFile, and once the merges
\* are over (grouping, projection, hub assembly) no step changes any field of
\* any TrackFile.
C16_ReadOnlyAfterMerge ==
    [][/\ \A i \in 1..Len(track_files) :
              /\ i <= Len(track_files')
              /\ track_files'[i].track_type = track_files[i].track_type
       /\ pc \in {"create_hub", "add_tracks"} => track_files' = track_files]_vars

----------------------------------------------------------------------------
(* The keys of the groups, in the calls of SpecGroup.                      *)

\* The value of the grouping attribute of the object ref
OwnKey(call, ref) ==
    IF call.by = "sample_id" THEN track_files[ref].sample_id
    ELSE track_files[ref].annotation_type

\* The key of the group that holds the object ref
GroupOf(call, ref) ==
    CHOOSE k \in DOMAIN call.lists : \E j \in 1..Len(call.lists[k]) : call.lists[k][j] = ref

\* C17: for either grouping function, the key of an object's group is the
\* object's own sample_id (annotation_type), unchanged, so two objects are in
\* one group exactly when these values are equal.
C17_GroupKeyIsOwnKey ==
    \A c \in 1..Len(groupings) :
        LET call == groupings[c]
        IN  \A i \in 1..Len(call.of) :
                /\ GroupOf(call, call.of[i]) = OwnKey(call, call.of[i])
                /\ \A j \in 1..Len(call.of) :
                       GroupOf(call, call.of[i]) = GroupOf(call, call.of[j])
                           <=> OwnKey(call, call.of[i]) = OwnKey(call, call.of[j])

\* The key under which group_bigbed_files_by_annotation files an object
KeyUsed(call, ref) ==
    IF call.by = "annotation_type" /\ OwnKey(call, ref) \in {<<>>, None}
    THEN Str_default
    ELSE OwnKey(call, ref)

\* C17, amended: the same for group_track_files_by_sample; in
\* group_bigbed_files_by_annotation an object whose annotation_type is empty or
\* None is filed under the key default, together with the objects whose
\* annotation_type is default, and every other object under its own
\* annotation_type, unchanged.
C17_GroupKeyIsOwnKeyOrDefault ==
    \A c \in 1..Len(groupings) :
        LET call == groupings[c]
        IN  \A i \in 1..Len(call.of) :
                /\ GroupOf(call, call.of[i]) = KeyUsed(call, call.of[i])
                /\ \A j \in 1..Len(call.of) :
                       GroupOf(call, call.of[i]) = GroupOf(call, call.of[j])
                           <=> KeyUsed(call, call.of[i]) = KeyUsed(call, call.of[j])

C17_Witness ==
    /\ pc = "done"
    /\ Len(groupings) = 1
    /\ groupings[1].by = "annotation_type"
    /\ Len(track_files) = 3
    /\ track_files[1].annotation_type = <<"p">>
    /\ track_files[2].annotation_type = <<"P">>
    /\ track_files[3].annotation_type = <<>>
    /\ groupings[1].keys = <<<<"p">>, <<"P">>, Str_default>>
    /\ groupings[1].lists[Str_default] = <<3>>

C17_WitnessBySample ==
    /\ pc = "done"
    /\ Len(groupings) = 1
    /\ groupings[1].by = "sample_id"
    /\ groupings[1].keys = <<Str_S1, <<"s", "1">>, <<" ", "S", "1">>>>
    /\ groupings[1].of = <<1, 2, 3>>

----------------------------------------------------------------------------
(* The order of the stages, in the runs of Spec.                           *)

\* The step constructs TrackFile objects (discovery, with the extraction of
\* sample_id and annotation_type in the constructor)
Discovers == Len(track_files') > Len(track_files)
\* The step applies the sheet to TrackFile objects
Merges == Len(merged') > Len(merged)
Groups == Len(groupings') > Len(groupings)
Projects == Len(hub'.tracks) > Len(hub.tracks)
Renders == hub'.rendered /\ ~hub.rendered

\* What holds of every run from the merge onwards: grouping comes after every
\* merge, projection after the grouping, and hub.render after the projection of
\* the last TrackFile
LaterStagesInOrder ==
    /\ Merges => groupings = <<>> /\ hub.tracks = <<>> /\ ~hub.rendered
    /\ Groups => hub.tracks = <<>> /\ ~hub.rendered
    /\ Projects => groupings' = groupings /\ ~hub.rendered
    /\ Renders =>
           /\ Len(hub.tracks) = Len(track_files)
           /\ \A i \in 1..Len(track_files) :
                  \E j \in 1..Len(hub.tracks) : hub.tracks[j].file = i

====
